---- MODULE Spec2Model ----
(***************************************************************************)
(* A model of lacss/deploy/server.py: the length-prefixed protobuf serving *)
(* loop (read_input, the normalisation, the adapter call, the score image, *)
(* write_result) together with the byte streams it reads and writes.       *)
(*                                                                         *)
(* Streams are sequences of bytes (0..255).  The outbound side has the     *)
(* three layers CPython puts under print() and sys.stdout.buffer.write():  *)
(* the text layer's pending bytes, the BufferedWriter's buffer and the     *)
(* pipe the peer reads.                                                    *)
(***************************************************************************)
EXTENDS Integers, Sequences, FiniteSets, TLC

(***************************************************************************)
(* Bounds of the model.                                                    *)
(***************************************************************************)
\* Frames the peer sends before it closes the inbound stream.
MaxFrames == 2

\* Size of the BufferedWriter behind sys.stdout.buffer, scaled down from
\* io.DEFAULT_BUFFER_SIZE so that Result bodies of both kinds occur: one
\* that fits the buffer and one that is larger than it.
BufSize == 24

(***************************************************************************)
(* Sequences of bytes.                                                     *)
(***************************************************************************)
Min(a, b) == IF a <= b THEN a ELSE b

Take(s, n) == SubSeq(s, 1, Min(n, Len(s)))

Drop(s, n) == SubSeq(s, Min(n, Len(s)) + 1, Len(s))

RECURSIVE Flatten(_)
Flatten(ss) == IF ss = <<>> THEN <<>> ELSE Head(ss) \o Flatten(Tail(ss))

IsPrefix(p, s) == Len(p) <= Len(s) /\ SubSeq(s, 1, Len(p)) = p

(***************************************************************************)
(* struct.pack(">i", n) and struct.unpack(">i", b): four bytes, big-endian, *)
(* two's complement.                                                       *)
(***************************************************************************)
ByteAt(m, k) == (m \div (256 ^ k)) % 256

\* struct.pack("<i", n): the bytes in little-endian order.
struct_pack_mutant(n) ==
  IF n >= 0
    THEN <<ByteAt(n, 0), ByteAt(n, 1), ByteAt(n, 2), ByteAt(n, 3)>>
    ELSE <<255 - ByteAt(-(n + 1), 0), 255 - ByteAt(-(n + 1), 1),
           255 - ByteAt(-(n + 1), 2), 255 - ByteAt(-(n + 1), 3)>>

struct_pack(n) ==
  IF n >= 0
    THEN <<ByteAt(n, 3), ByteAt(n, 2), ByteAt(n, 1), ByteAt(n, 0)>>
    ELSE <<255 - ByteAt(-(n + 1), 3), 255 - ByteAt(-(n + 1), 2),
           255 - ByteAt(-(n + 1), 1), 255 - ByteAt(-(n + 1), 0)>>

struct_unpack(b) ==
  IF b[1] < 128
    THEN b[1] * 16777216 + b[2] * 65536 + b[3] * 256 + b[4]
    ELSE -(1 + (255 - b[1]) * 16777216 + (255 - b[2]) * 65536
             + (255 - b[3]) * 256 + (255 - b[4]))

(***************************************************************************)
(* The protobuf wire format of lacss_pb2 (Input, Image, Result and its     *)
(* matrices): a message is a run of fields, each a one-byte tag            *)
(* (number * 8 + wire type) followed by a varint (wire type 0) or by a     *)
(* varint length and that many bytes (wire type 2).  proto3 leaves out a   *)
(* scalar that holds its default; a sub-message that was assigned to is    *)
(* always written.                                                         *)
(***************************************************************************)
Max(S) == CHOOSE x \in S : \A y \in S : y <= x

RECURSIVE VarintNat(_)
VarintNat(v) ==
  IF v < 128 THEN <<v>> ELSE <<128 + (v % 128)>> \o VarintNat(v \div 128)

\* A negative int32 is sign-extended to 64 bits: ten bytes.
Varint(v) ==
  IF v >= 0
    THEN VarintNat(v)
    ELSE [k \in 1..10 |->
            IF k = 10 THEN 1
            ELSE IF k <= 5
              THEN 128 + (127 - (((-(v + 1)) \div (128 ^ (k - 1))) % 128))
              ELSE 255]

Tag(num, wt) == num * 8 + wt

FieldVarint(num, v) == IF v = 0 THEN <<>> ELSE <<Tag(num, 0)>> \o Varint(v)

FieldBytes(num, b) ==
  IF b = <<>> THEN <<>> ELSE <<Tag(num, 2)>> \o Varint(Len(b)) \o b

FieldMessage(num, b) == <<Tag(num, 2)>> \o Varint(Len(b)) \o b

\* The index of the last byte of the varint starting at b[i], 0 if the
\* buffer ends inside it (or it is longer than ten bytes).  j is the
\* index looked at.
RECURSIVE VarintEndFrom(_, _, _)
VarintEndFrom(b, i, j) ==
  IF j > Len(b) \/ j > i + 9 THEN 0
  ELSE IF b[j] < 128 THEN j ELSE VarintEndFrom(b, i, j + 1)

VarintEnd(b, i) == VarintEndFrom(b, i, i)

\* The varint b[i..j] as an int32: its low 32 bits, two's complement.
VarintGroup(b, i, j, k) == IF i + k <= j THEN b[i + k] % 128 ELSE 0

SignedNibble(top) == IF top >= 8 THEN top - 16 ELSE top

VarintValue(b, i, j) ==
  VarintGroup(b, i, j, 0) + VarintGroup(b, i, j, 1) * 128
    + VarintGroup(b, i, j, 2) * 16384 + VarintGroup(b, i, j, 3) * 2097152
    + SignedNibble(VarintGroup(b, i, j, 4) % 16) * 268435456

DecodeError == [ok |-> FALSE, fields |-> <<>>]

ConsField(f, r) ==
  IF r.ok THEN [ok |-> TRUE, fields |-> <<f>> \o r.fields] ELSE r

\* The fields of buffer b from index i on; ok is FALSE when b does not
\* parse (google.protobuf.message.DecodeError).  ScanFields reads the tag
\* that ends at t, ScanField the field of that tag, whose varint (the
\* value, or the length of its bytes) ends at e and is n.
RECURSIVE ScanFields(_, _)
ScanValue(b, t, tag, e, n) ==
  IF tag % 8 = 0 THEN
    ConsField([num |-> tag \div 8, wt |-> 0, val |-> n, bytes |-> <<>>],
              ScanFields(b, e + 1))
  ELSE IF n < 0 \/ e + n > Len(b) THEN DecodeError
  ELSE ConsField([num |-> tag \div 8, wt |-> 2, val |-> 0,
                  bytes |-> SubSeq(b, e + 1, e + n)],
                 ScanFields(b, e + n + 1))

ScanField(b, t, tag, e) ==
  IF tag < 8 THEN DecodeError
  ELSE IF tag % 8 \in {0, 2} THEN
    IF e = 0 THEN DecodeError
             ELSE ScanValue(b, t, tag, e, VarintValue(b, t + 1, e))
  ELSE IF tag % 8 = 1 THEN
    IF t + 8 > Len(b) THEN DecodeError ELSE ScanFields(b, t + 9)
  ELSE IF tag % 8 = 5 THEN
    IF t + 4 > Len(b) THEN DecodeError ELSE ScanFields(b, t + 5)
  ELSE DecodeError

ScanTag(b, i, t) ==
  IF t = 0 THEN DecodeError
  ELSE ScanField(b, t, VarintValue(b, i, t), VarintEnd(b, t + 1))

ScanFields(b, i) ==
  IF i > Len(b) THEN [ok |-> TRUE, fields |-> <<>>]
  ELSE ScanTag(b, i, VarintEnd(b, i))

\* The index of the last field num of wire type wt among the first k
\* fields, 0 if there is none.
RECURSIVE LastIndex(_, _, _, _)
LastIndex(fs, num, wt, k) ==
  IF k = 0 THEN 0
  ELSE IF fs[k].num = num /\ fs[k].wt = wt THEN k
  ELSE LastIndex(fs, num, wt, k - 1)

VarintAt(fs, k) == IF k = 0 THEN 0 ELSE fs[k].val

BytesAt(fs, k) == IF k = 0 THEN <<>> ELSE fs[k].bytes

\* The last value of scalar field num (0, the default, if absent).
LastVarint(fs, num) == VarintAt(fs, LastIndex(fs, num, 0, Len(fs)))

LastBytes(fs, num) == BytesAt(fs, LastIndex(fs, num, 2, Len(fs)))

\* Repeated occurrences of a sub-message field are merged: the same as
\* parsing their payloads one after the other.
RECURSIVE AllBytes(_, _)
AllBytes(fs, num) ==
  IF fs = <<>> THEN <<>>
  ELSE (IF Head(fs).num = num /\ Head(fs).wt = 2 THEN Head(fs).bytes ELSE <<>>)
       \o AllBytes(Tail(fs), num)

EmptyImage == [height |-> 0, width |-> 0, channel |-> 0, data |-> <<>>]

SerializeImage(im) ==
  FieldVarint(1, im.height) \o FieldVarint(2, im.width)
    \o FieldVarint(3, im.channel) \o FieldBytes(4, im.data)

SerializeInput(m) ==
  FieldMessage(1, SerializeImage(m.image)) \o FieldBytes(2, m.settings)

\* lacss_pb2.Input().ParseFromString(b): top are the fields of the
\* message, sub those of its image.
InputOf(top, sub) ==
  IF ~top.ok \/ ~sub.ok
    THEN [ok |-> FALSE, image |-> EmptyImage, settings |-> <<>>]
    ELSE [ok |-> TRUE,
          image |-> [height  |-> LastVarint(sub.fields, 1),
                     width   |-> LastVarint(sub.fields, 2),
                     channel |-> LastVarint(sub.fields, 3),
                     data    |-> LastBytes(sub.fields, 4)],
          settings |-> LastBytes(top.fields, 2)]

ImageFields(top) == ScanFields(AllBytes(top.fields, 1), 1)

ParseInputFields(top) == InputOf(top, ImageFields(top))

ParseInput(b) == ParseInputFields(ScanFields(b, 1))

SerializeIntMatrix(m) ==
  FieldVarint(1, m.height) \o FieldVarint(2, m.width) \o FieldBytes(3, m.data)

\* msg.SerializeToString() of a Result whose two matrices were assigned.
SerializeResult(r) ==
  FieldMessage(1, SerializeIntMatrix(r.label))
    \o FieldMessage(2, SerializeIntMatrix(r.score))

IntMatrixOf(s) ==
  [height |-> LastVarint(s.fields, 1), width |-> LastVarint(s.fields, 2),
   data |-> LastBytes(s.fields, 3)]

ParseIntMatrix(b) == IntMatrixOf(ScanFields(b, 1))

\* What the peer's Result parser makes of a frame body: top are the
\* fields of the message, l and s those of its label and its score.
ResultOfParts(top, l, s) ==
  [ok    |-> top.ok /\ l.ok /\ s.ok,
   label |-> IntMatrixOf(l),
   score |-> IntMatrixOf(s)]

ResultOfFields(top) ==
  ResultOfParts(top, ScanFields(AllBytes(top.fields, 1), 1),
                ScanFields(AllBytes(top.fields, 2), 1))

ParseResult(b) == ResultOfFields(ScanFields(b, 1))

(***************************************************************************)
(* numpy, as read_input, main and write_result use it.  An array is a      *)
(* record of its shape and its elements in C order.  A float is a record   *)
(* [fin, v]: fin is FALSE for NaN and the infinities.                      *)
(***************************************************************************)
Fin(v) == [fin |-> TRUE, v |-> v]

NaN == [fin |-> FALSE, v |-> 0]

\* The big-endian float32 patterns of the values the streams here carry.
F4(x) ==
  CASE x = Fin(0) -> <<0, 0, 0, 0>>
    [] x = Fin(1) -> <<63, 128, 0, 0>>
    [] x = Fin(2) -> <<64, 0, 0, 0>>
    [] x = NaN    -> <<127, 192, 0, 0>>

\* One ">f4" element: sign, 8 bits of exponent e, 23 bits of mantissa m.
\* The finite values decoded are the integers below 2^24.
F4Value(neg, e, m) ==
  CASE e = 255 -> NaN
    [] e = 0 /\ m = 0 -> Fin(0)
    [] e >= 127 /\ e <= 150 /\ (8388608 + m) % (2 ^ (150 - e)) = 0 ->
         Fin((IF neg THEN -1 ELSE 1) * ((8388608 + m) \div (2 ^ (150 - e))))

F4Decode(q) ==
  F4Value(q[1] >= 128, (q[1] % 128) * 2 + (q[2] \div 128),
          (q[2] % 128) * 65536 + q[3] * 256 + q[4])

Product(shape) ==
  LET RECURSIVE P(_)
      P(s) == IF s = <<>> THEN 1 ELSE Head(s) * P(Tail(s))
  IN P(shape)

\* np.frombuffer(data, dtype=">f4"): ok is FALSE for the ValueError of a
\* buffer whose size is no multiple of the element size.
frombuffer(data) ==
  IF Len(data) % 4 # 0
    THEN [ok |-> FALSE, px |-> <<>>]
    ELSE [ok |-> TRUE,
          px |-> [i \in 1..(Len(data) \div 4) |->
                    F4Decode(SubSeq(data, 4 * i - 3, 4 * i))]]

\* ndarray.reshape(shape) of an array of n elements: one negative entry is
\* the unknown dimension, inferred from the others; ok is FALSE for the
\* ValueError of a shape that does not fit.
Negative(shape) == {i \in 1..Len(shape) : shape[i] < 0}

Known(shape) ==
  Product([i \in 1..Len(shape) |-> IF shape[i] < 0 THEN 1 ELSE shape[i]])

Reshaped(n, shape, known) ==
  IF Cardinality(Negative(shape)) > 1 THEN [ok |-> FALSE, shape |-> <<>>]
  ELSE IF Negative(shape) = {} THEN
    IF known = n THEN [ok |-> TRUE, shape |-> shape]
                 ELSE [ok |-> FALSE, shape |-> <<>>]
  ELSE IF known = 0 \/ n % known # 0 THEN [ok |-> FALSE, shape |-> <<>>]
  ELSE [ok |-> TRUE,
        shape |-> [i \in 1..Len(shape) |->
                     IF shape[i] < 0 THEN n \div known ELSE shape[i]]]

reshape(n, shape) == Reshaped(n, shape, Known(shape))

Sum(s) ==
  LET RECURSIVE S(_)
      S(t) == IF t = <<>> THEN 0 ELSE Head(t) + S(Tail(t))
  IN S(s)

\* img -= img.mean(); img = img / img.std()   (population mean and std).
\* With n elements of sum s, element x becomes (n*x - s) / sqrt(q / n),
\* q the sum of the squares (n*x - s)^2: the result keeps n*x - s.  A
\* zero std divides 0 by 0, which numpy answers with NaN (and a warning),
\* and a NaN among the elements makes the mean, hence everything, NaN.
Centred(px, s) == [i \in 1..Len(px) |-> Len(px) * px[i].v - s]

Squares(c) == [i \in 1..Len(c) |-> c[i] * c[i]]

Normalized(px, c) ==
  IF (\E i \in 1..Len(px) : ~px[i].fin) \/ Sum(Squares(c)) = 0
    THEN [i \in 1..Len(px) |-> NaN]
    ELSE [i \in 1..Len(px) |-> Fin(c[i])]

Normalize(px) ==
  Normalized(px, Centred(px, Sum([i \in 1..Len(px) |-> px[i].v])))

HasNaN(px) == \E i \in 1..Len(px) : ~px[i].fin

(***************************************************************************)
(* The score image and the Result message (main, img_to_msg,               *)
(* write_result).  A score s is kept as the integer 2000 * s, so that      *)
(* s * 1000 has a fractional part to truncate.                             *)
(***************************************************************************)
ArrayMax(v) == Max({v[k] : k \in 1..Len(v)})

\* a[i] for a Python index i: a negative i counts from the end.
IndexOk(n, i) == -n <= i /\ i < n

PyIndex(a, i) == IF i >= 0 THEN a[i + 1] ELSE a[Len(a) + i + 1]

\* score_img = scores[label - 1]: ok is FALSE for the IndexError of an
\* index outside scores.
TakeScores(label, scores) ==
  [ok    |-> \A k \in 1..Len(label.v) : IndexOk(Len(scores), label.v[k] - 1),
   shape |-> label.shape,
   v     |-> [k \in 1..Len(label.v) |->
                IF IndexOk(Len(scores), label.v[k] - 1)
                  THEN PyIndex(scores, label.v[k] - 1) ELSE 0]]

\* score_img *= (label > 0)
MaskScores(label, img) ==
  [shape |-> img.shape,
   v     |-> [k \in 1..Len(img.v) |->
                img.v[k] * (IF label.v[k] > 0 THEN 1 ELSE 0)]]

\* The low 16 bits of x as an int16: an integer cast to a 16-bit type.
AsInt16(x) == ((x + 32768) % 65536) - 32768

\* score * 1000 truncated toward zero (m is 2000 times the score).
Trunc1000(m) == IF m >= 0 THEN m \div 2 ELSE -((-m) \div 2)

\* .astype(np.int16) of a float: the C cast of a float to a short, which
\* is undefined for a value outside the int16 range.  The builds in use
\* keep the low 16 bits (conversion to 32 bits, then truncation) or
\* saturate (a saturating narrowing conversion); none raises.
CastModes == {"wrap", "saturate"}

Saturate(x) == IF x > 32767 THEN 32767 ELSE IF x < -32768 THEN -32768 ELSE x

FloatToInt16(mode, x) == IF mode = "wrap" THEN AsInt16(x) ELSE Saturate(x)

\* (score * 1000).astype(np.int16) of one element.
Quantize(mode, m) == FloatToInt16(mode, Trunc1000(m))

\* One ">i2" element.
I16BE(x) == <<(x % 65536) \div 256, x % 256>>

\* img_to_msg(msg, img): the matrix message, and whether its assertion
\* len(msg.data) == msg.height * msg.width * 2 holds.
img_to_msg(img) ==
  LET data == Flatten([k \in 1..Len(img.v) |-> I16BE(AsInt16(img.v[k]))])
  IN [ok  |-> Len(data) = img.shape[1] * img.shape[2] * 2,
      msg |-> [height |-> img.shape[1], width |-> img.shape[2],
               data |-> data]]

\* write_result with score[:1] for score: the first row only.
ResultMsg_mutant(mode, label, score) ==
  [score |-> img_to_msg([shape |-> <<1, score.shape[2]>>,
                         v |-> [k \in 1..score.shape[2] |->
                                  Quantize(mode, score.v[k])]]).msg,
   label |-> img_to_msg(label).msg]

\* lines 48-50 of write_result: the Result message of label and score.
ResultMsg(mode, label, score) ==
  [score |-> img_to_msg([shape |-> score.shape,
                         v |-> [k \in 1..Len(score.v) |->
                                  Quantize(mode, score.v[k])]]).msg,
   label |-> img_to_msg(label).msg]

(***************************************************************************)
(* The outbound stream.  print() appends to the text layer's pending       *)
(* bytes; st.write() goes to the BufferedWriter: data that fits the free   *)
(* part of the buffer is only copied, other data first flushes the buffer  *)
(* and goes to the pipe itself when it is larger than the whole buffer.    *)
(* Nothing in server.py flushes; the interpreter does when it exits.       *)
(***************************************************************************)
StartupText ==
  <<99, 101, 108, 108, 112, 111, 115, 101, 95, 115, 101, 114, 118, 101,
    114, 58, 32, 108, 111, 97, 100, 101, 100, 32, 109, 111, 100, 101,
    108, 32, 100, 101, 102, 117, 97, 108, 116, 32, 67, 121, 116, 111,
    32, 77, 111, 100, 101, 108, 10>>

SendText ==
  <<99, 101, 108, 108, 112, 111, 115, 101, 95, 115, 101, 114, 118, 101,
    114, 58, 32, 77, 97, 100, 101, 32, 112, 114, 101, 100, 105, 99, 116,
    105, 111, 110, 46, 46, 46, 32, 116, 114, 121, 105, 110, 103, 32,
    116, 111, 32, 115, 101, 110, 100, 32, 112, 114, 101, 100, 46, 46,
    46, 10>>

\* sys.stdout.buffer.write(data), on the stream record [text, buf, pipe].
BufferedWrite(o, data) ==
  IF Len(data) <= BufSize - Len(o.buf)
    THEN [o EXCEPT !.buf = o.buf \o data]
    ELSE IF Len(data) > BufSize
      THEN [o EXCEPT !.buf = <<>>, !.pipe = o.pipe \o o.buf \o data]
      ELSE [o EXCEPT !.buf = data, !.pipe = o.pipe \o o.buf]

\* print(text) with sys.stdout a pipe: the text layer keeps the bytes until
\* 8192 of them are pending.
PrintStdout(o, text) ==
  IF Len(o.text \o text) >= 8192
    THEN BufferedWrite([o EXCEPT !.text = <<>>], o.text \o text)
    ELSE [o EXCEPT !.text = o.text \o text]

\* The interpreter's exit: sys.stdout.flush() hands the pending text to the
\* BufferedWriter and flushes that.
FlushStdout(o) ==
  LET w == BufferedWrite([o EXCEPT !.text = <<>>], o.text)
  IN [text |-> <<>>, buf |-> <<>>, pipe |-> w.pipe \o w.buf]

\* The complete frames at the head of a stream, as a reader of frames
\* finds them.
RECURSIVE Frames(_)
Frames(s) ==
  IF Len(s) < 4 THEN <<>>
  ELSE LET n == struct_unpack(Take(s, 4))
       IN IF n < 0 \/ Len(s) < 4 + n THEN <<>>
          ELSE <<SubSeq(s, 5, 4 + n)>> \o Frames(Drop(s, 4 + n))

(***************************************************************************)
(* The peer and what it sends.  The peer writes frames of Input messages   *)
(* to the inbound stream and then closes it; its last chunk may be a       *)
(* frame it did not finish, or one whose length prefix is wrong.           *)
(***************************************************************************)
Image(h, w, c, px) ==
  [height |-> h, width |-> w, channel |-> c,
   data |-> Flatten([i \in 1..Len(px) |-> F4(px[i])])]

\* The well-formed 2x2x1 image of the end-to-end scenario.
Input2x2 ==
  [image |-> Image(2, 2, 1, <<Fin(0), Fin(1), Fin(2), Fin(1)>>),
   settings |-> <<7>>]

Input1x2 ==
  [image |-> Image(1, 2, 1, <<Fin(0), Fin(1)>>), settings |-> <<>>]

\* A constant-valued image: zero variance.
InputConst ==
  [image |-> Image(1, 2, 1, <<Fin(1), Fin(1)>>), settings |-> <<7>>]

\* height = -1 with two pixels: len(data) = 8 is not height*width*channel*4.
InputNegHeight ==
  [image |-> Image(-1, 2, 1, <<Fin(0), Fin(1)>>), settings |-> <<7>>]

\* All dimensions zero and no data: len(data) = 0 = height*width*channel*4.
InputEmpty == [image |-> Image(0, 0, 0, <<>>), settings |-> <<>>]

\* Two pixels announced as 2x2x1.
InputShort ==
  [image |-> Image(2, 2, 1, <<Fin(0), Fin(1)>>), settings |-> <<>>]

\* Three bytes of data: no whole float32.
InputOdd ==
  [image |-> [height |-> 1, width |-> 1, channel |-> 1, data |-> <<0, 0, 0>>],
   settings |-> <<>>]

\* A body that is no message: a field of five bytes with one byte present.
Garbage == <<10, 5, 8>>

\* writeFrame of the peer: the 4-byte big-endian length, then the body.
Frame(body) == struct_pack(Len(body)) \o body

\* The frames after which the loop reads on.
GoodFrames ==
  {Frame(SerializeInput(m)) : m \in {Input2x2, Input1x2, InputConst}}

\* Chunks sent last: frames of messages that break the data model, a frame
\* cut short (inside the prefix, after it, inside the image, and between
\* the image and the settings), and prefixes that are not the length.
LastChunks ==
  {Frame(SerializeInput(m)) :
     m \in {InputNegHeight, InputEmpty, InputShort, InputOdd}}
  \cup {Frame(Garbage)}
  \cup {Take(Frame(SerializeInput(Input2x2)), k) : k \in {2, 4, 9, 30}}
  \cup {struct_pack(n) \o SerializeInput(Input1x2) : n \in {-1, -2, 0}}

RECURSIVE SeqsUpTo(_, _)
SeqsUpTo(S, n) ==
  IF n = 0 THEN {<<>>}
  ELSE LET shorter == SeqsUpTo(S, n - 1)
       IN shorter \cup {Append(q, x) : q \in shorter, x \in S}

Plans ==
  LET good == SeqsUpTo(GoodFrames, MaxFrames)
  IN good \cup {Append(q, x) : q \in good, x \in LastChunks}

(***************************************************************************)
(* The inference adapter, model.eval: an external collaborator.  It        *)
(* answers with a label array and a score sequence, or raises.             *)
(***************************************************************************)
Label(h, w, v) == [shape |-> <<h, w>>, v |-> v]

AdapterOutputs ==
  { [label |-> Label(1, 1, <<1>>),          scores |-> <<1001>>],
    [label |-> Label(2, 2, <<0, 1, 2, 1>>), scores |-> <<1800, -3>>],
    [label |-> Label(1, 2, <<0, 0>>),       scores |-> <<>>],
    [label |-> Label(1, 2, <<0, 2>>),       scores |-> <<1800>>],
    [label |-> [shape |-> <<1, 1, 1>>, v |-> <<1>>],
     scores |-> <<1001>>] }

(***************************************************************************)
(* The state: the two streams, the peer, the position of main and its      *)
(* local variables, and a record of what was read, inferred and written.   *)
(***************************************************************************)
VARIABLES
  pc,         \* where main is: start, read_size, read_msg, normalize, eval,
              \* build, write_size, write_msg, raised, exited
  exc,        \* the exception that ended main ("none" while it runs)
  plan,       \* the chunks the peer has still to send
  lockstep,   \* the peer waits for response N before it sends request N+1
  sent,       \* the number of chunks the peer has sent
  stdin,      \* [data: the bytes sent and not yet read, closed]
  stdout,     \* [text, buf, pipe]: pending text, BufferedWriter, the pipe
  msg_size,   \* read_input: the length prefix read
  img,        \* main: the image, [shape, px]
  settings,   \* main: the settings of the Input read
  label,      \* main: the adapter's label array, [shape, v]
  scores,     \* main: the adapter's scores
  score_img,  \* main: the score image, [shape, v]
  msg,        \* write_result: the serialized Result
  requests,   \* the frames read so far: [size, body]
  calls,      \* the adapter calls so far: [img, settings, label, scores]
  results,    \* the Result bodies whose two writes were made
  polygon_args  \* write_polygon_result: its arguments [polygons, scores]

vars ==
  <<pc, exc, plan, lockstep, sent, stdin, stdout, msg_size, img, settings,
    label, scores, score_img, msg, requests, calls, results, polygon_args>>

peerVars == <<plan, lockstep, sent>>

localVars == <<msg_size, img, settings, label, scores, score_img, msg>>

logVars == <<requests, calls, results>>

NoArray == [shape |-> <<>>, v |-> <<>>]

\* main never calls write_polygon_result.
NoPolygons == [polygons |-> <<>>, scores |-> <<>>]

Init ==
  /\ pc = "start"
  /\ exc = "none"
  /\ plan \in Plans
  /\ lockstep \in BOOLEAN
  /\ sent = 0
  /\ stdin = [data |-> <<>>, closed |-> FALSE]
  /\ stdout = [text |-> <<>>, buf |-> <<>>, pipe |-> <<>>]
  /\ msg_size = 0
  /\ img = [shape |-> <<>>, px |-> <<>>]
  /\ settings = <<>>
  /\ label = NoArray
  /\ scores = <<>>
  /\ score_img = NoArray
  /\ msg = <<>>
  /\ requests = <<>>
  /\ calls = <<>>
  /\ results = <<>>
  /\ polygon_args = NoPolygons

\* An exception nothing catches: main ends.
Raise(e) == pc' = "raised" /\ exc' = e

\* The responses the peer has received in full.
Received == Frames(stdout.pipe)

PeerMaySend == lockstep => Len(Received) >= sent

PeerSend ==
  /\ plan # <<>>
  /\ ~stdin.closed
  /\ PeerMaySend
  /\ stdin' = [stdin EXCEPT !.data = @ \o Head(plan)]
  /\ plan' = Tail(plan)
  /\ sent' = sent + 1
  /\ UNCHANGED polygon_args
  /\ UNCHANGED <<pc, exc, lockstep, stdout, localVars, logVars>>

PeerClose ==
  /\ plan = <<>>
  /\ ~stdin.closed
  /\ PeerMaySend
  /\ stdin' = [stdin EXCEPT !.closed = TRUE]
  /\ UNCHANGED polygon_args
  /\ UNCHANGED <<pc, exc, peerVars, stdout, localVars, logVars>>

\* main, lines 78-82: the model is loaded and a line is printed.
Startup ==
  /\ pc = "start"
  /\ stdout' = PrintStdout(stdout, StartupText)
  /\ pc' = "read_size"
  /\ UNCHANGED polygon_args
  /\ UNCHANGED <<exc, peerVars, stdin, localVars, logVars>>

\* read_input, lines 21-22: st.read(4) waits for four bytes or the end of
\* the stream and returns what there is; struct.unpack wants four bytes.
ReadSize ==
  /\ pc = "read_size"
  /\ Len(stdin.data) >= 4 \/ stdin.closed
  /\ stdin' = [stdin EXCEPT !.data = Drop(@, 4)]
  /\ IF Len(stdin.data) < 4
       THEN Raise("struct.error") /\ UNCHANGED msg_size
       ELSE /\ msg_size' = struct_unpack(Take(stdin.data, 4))
            /\ pc' = "read_msg"
            /\ UNCHANGED exc
  /\ UNCHANGED polygon_args
  /\ UNCHANGED <<peerVars, stdout, img, settings, label, scores, score_img,
                 msg, logVars>>

\* st.read(n): n bytes, or fewer at the end of the stream; -1 reads to the
\* end of the stream.
ReadReady(n) ==
  n < -1 \/ stdin.closed \/ (n >= 0 /\ Len(stdin.data) >= n)

ReadBytes(n) == IF n = -1 THEN stdin.data ELSE Take(stdin.data, n)

\* read_input, lines 24-35, on the body read: m is the message parsed
\* (line 25), a the array decoded from its data (line 28), r the reshape
\* (line 29).  exc names the exception raised.
Decoded(m, a, r) ==
  [exc |-> IF ~m.ok THEN "DecodeError"
           ELSE IF ~a.ok \/ ~r.ok THEN "ValueError" ELSE "none",
   img |-> [shape |-> r.shape, px |-> a.px],
   settings |-> m.settings]

DecodeArray(m, a) ==
  Decoded(m, a, reshape(Len(a.px), <<m.image.height, m.image.width,
                                     m.image.channel>>))

DecodeMessage(m) == DecodeArray(m, frombuffer(m.image.data))

DecodeInput(body) == DecodeMessage(ParseInput(body))

\* read_input, lines 24-35: the body is read and decoded into d.
ReadBody(body, d) ==
  /\ stdin' = [stdin EXCEPT !.data = Drop(@, Len(body))]
  /\ requests' = Append(requests, [size |-> msg_size, body |-> body])
  /\ IF d.exc # "none"
       THEN Raise(d.exc) /\ UNCHANGED <<img, settings>>
       ELSE /\ img' = d.img
            /\ settings' = d.settings
            /\ pc' = "normalize"
            /\ UNCHANGED exc

ReadMsg ==
  /\ pc = "read_msg"
  /\ ReadReady(msg_size)
  /\ IF msg_size < -1
       THEN /\ Raise("ValueError")
            /\ UNCHANGED <<stdin, img, settings, requests>>
       ELSE ReadBody(ReadBytes(msg_size), DecodeInput(ReadBytes(msg_size)))
  /\ UNCHANGED polygon_args
  /\ UNCHANGED <<peerVars, stdout, msg_size, label, scores, score_img, msg,
                 calls, results>>

\* main, lines 89-92 (the line printed goes to stderr).
NormalizeStep ==
  /\ pc = "normalize"
  /\ img' = [img EXCEPT !.px = Normalize(@)]
  /\ pc' = "eval"
  /\ UNCHANGED polygon_args
  /\ UNCHANGED <<exc, peerVars, stdin, stdout, msg_size, settings, label,
                 scores, score_img, msg, logVars>>

\* An argument of a call: passed with a value, or left out.
Passed(v) == [passed |-> TRUE, value |-> v]

NotPassed == [passed |-> FALSE, value |-> <<>>]

\* main, lines 94-100: model.eval(img, ) answers or raises.  img is the
\* only argument of the call.
Eval ==
  /\ pc = "eval"
  /\ \/ \E o \in AdapterOutputs :
          /\ label' = o.label
          /\ scores' = o.scores
          /\ calls' = Append(calls, [img |-> img, settings |-> NotPassed,
                                     label |-> o.label,
                                     scores |-> o.scores])
          /\ pc' = "build"
          /\ UNCHANGED exc
     \/ /\ Raise("InferenceError")
        /\ UNCHANGED <<label, scores, calls>>
  /\ UNCHANGED polygon_args
  /\ UNCHANGED <<peerVars, stdin, stdout, msg_size, img, settings, score_img,
                 msg, requests, results>>

\* main, lines 102-112 without the assertions of lines 102 and 104.
Build_mutant ==
  /\ pc = "build"
  /\ IF label.v = <<>>
       THEN Raise("ValueError") /\ UNCHANGED <<score_img, stdout>>
     ELSE IF ~TakeScores(label, scores).ok
       THEN Raise("IndexError") /\ UNCHANGED <<score_img, stdout>>
     ELSE /\ score_img' = MaskScores(label, TakeScores(label, scores))
          /\ stdout' = PrintStdout(stdout, SendText)
          /\ pc' = "write_size"
          /\ UNCHANGED exc
  /\ UNCHANGED polygon_args
  /\ UNCHANGED <<peerVars, stdin, msg_size, img, settings, label, scores,
                 msg, logVars>>

\* main, lines 102-112: the assertions, the score image, the line printed.
Build ==
  /\ pc = "build"
  /\ IF label.v = <<>>
       THEN Raise("ValueError") /\ UNCHANGED <<score_img, stdout>>
     ELSE IF ArrayMax(label.v) # Len(scores) \/ Len(label.shape) # 2
       THEN Raise("AssertionError") /\ UNCHANGED <<score_img, stdout>>
     ELSE IF ~TakeScores(label, scores).ok
       THEN Raise("IndexError") /\ UNCHANGED <<score_img, stdout>>
     ELSE /\ score_img' = MaskScores(label, TakeScores(label, scores))
          /\ stdout' = PrintStdout(stdout, SendText)
          /\ pc' = "write_size"
          /\ UNCHANGED exc
  /\ UNCHANGED polygon_args
  /\ UNCHANGED <<peerVars, stdin, msg_size, img, settings, label, scores,
                 msg, logVars>>

\* write_result, lines 48-54: the message is built, unless an assertion
\* of img_to_msg fails, and its size written.
WriteSize ==
  /\ pc = "write_size"
  /\ IF ~img_to_msg(score_img).ok \/ ~img_to_msg(label).ok
       THEN Raise("AssertionError") /\ UNCHANGED <<msg, stdout>>
       ELSE /\ \E mode \in CastModes :
                 LET body == SerializeResult(ResultMsg(mode, label,
                                                       score_img))
                 IN /\ msg' = body
                    /\ stdout' = BufferedWrite(stdout,
                                               struct_pack(Len(body)))
            /\ pc' = "write_msg"
            /\ UNCHANGED exc
  /\ UNCHANGED polygon_args
  /\ UNCHANGED <<peerVars, stdin, msg_size, img, settings, label, scores,
                 score_img, logVars>>

\* write_result without its line 55: the body is never written.
WriteMsg_mutant ==
  /\ pc = "write_msg"
  /\ pc' = "read_size"
  /\ UNCHANGED polygon_args
  /\ UNCHANGED <<exc, peerVars, stdin, stdout, localVars, logVars>>

\* write_result, line 55: the message is written; main loops.
WriteMsg ==
  /\ pc = "write_msg"
  /\ stdout' = BufferedWrite(stdout, msg)
  /\ results' = Append(results, msg)
  /\ pc' = "read_size"
  /\ UNCHANGED polygon_args
  /\ UNCHANGED <<exc, peerVars, stdin, localVars, requests, calls>>

\* The interpreter ends after the exception: it flushes sys.stdout.
Exit ==
  /\ pc = "raised"
  /\ stdout' = FlushStdout(stdout)
  /\ pc' = "exited"
  /\ UNCHANGED polygon_args
  /\ UNCHANGED <<exc, peerVars, stdin, localVars, logVars>>

Next ==
  \/ PeerSend
  \/ PeerClose
  \/ Startup
  \/ ReadSize
  \/ ReadMsg
  \/ NormalizeStep
  \/ Eval
  \/ Build
  \/ WriteSize
  \/ WriteMsg
  \/ Exit

Spec == Init /\ [][Next]_vars

(***************************************************************************)
(* The claims about the serving loop.                                      *)
(***************************************************************************)
Ended == pc \in {"raised", "exited"}

\* The bytes of the frames of a sequence of bodies.
FrameBytes(bodies) == Flatten([i \in 1..Len(bodies) |-> Frame(bodies[i])])

\* The length prefixes read so far.
Started == Len(requests) + (IF pc = "read_msg" THEN 1 ELSE 0)

\* C1: when the inbound stream is closed with fewer than four bytes left
\* for the next length prefix, the loop leaves read_size for a clean stop:
\* no exception, no other state.
C1_CleanStop ==
  [][(pc = "read_size" /\ stdin.closed /\ Len(stdin.data) < 4
        /\ pc' # "read_size")
     => (pc' = "stopped" /\ exc' = "none")]_vars

\* The Result frames written in full to sys.stdout.buffer.
Written == Frames(stdout.pipe \o stdout.buf)

\* The Result body main sends for an adapter answer.
ResultOf(mode, c) ==
  SerializeResult(ResultMsg(mode, c.label,
                            MaskScores(c.label,
                                       TakeScores(c.label, c.scores))))

\* The adapter kept its contract: a 2-D label of values 0..max(label) and
\* one score per instance.
HonoursContract(l, s) ==
  /\ l.v # <<>>
  /\ Len(l.shape) = 2
  /\ \A k \in 1..Len(l.v) : l.v[k] >= 0
  /\ Len(s) = ArrayMax(l.v)

GoodBodies == {SerializeInput(Input2x2), SerializeInput(Input1x2)}

\* C2: after k >= 1 well-formed, non-degenerate Input frames and the close
\* of the stream, with an adapter that honours its contract (and finds an
\* instance each time), the process has written exactly the k Result frames
\* and nothing else, and has stopped without an error.
C2_ExactlyKThenStopped ==
  ( /\ pc = "exited"
    /\ plan = <<>> /\ stdin.closed /\ stdin.data = <<>>
    /\ Len(requests) >= 1
    /\ \A i \in 1..Len(requests) :
         /\ requests[i].size = Len(requests[i].body)
         /\ requests[i].body \in GoodBodies
    /\ Len(calls) = Len(requests)
    /\ \A i \in 1..Len(calls) :
         /\ HonoursContract(calls[i].label, calls[i].scores)
         /\ ArrayMax(calls[i].label.v) >= 1 )
  => ( /\ exc = "none"
       /\ Len(results) = Len(requests)
       /\ stdout.pipe = FrameBytes(results) )

\* C3: the bytes on the outbound stream are the frames written so far,
\* possibly followed by a prefix of the frame being written, and nothing
\* else.
C3_OnlyFrames ==
  IsPrefix(stdout.pipe,
           FrameBytes(results)
             \o (IF pc = "write_msg" THEN Frame(msg) ELSE <<>>))

\* The frames written follow the requests read, one for one.
OneAtATime(written) ==
  /\ Len(written) \in {Started - 1, Started}
  /\ pc = "read_msg" => Len(written) = Len(requests)
  /\ \A i \in 1..Len(written) :
       /\ i <= Len(calls) /\ i <= Len(requests)
       /\ \E mode \in CastModes : written[i] = ResultOf(mode, calls[i])
       /\ calls[i].img.px = Normalize(DecodeInput(requests[i].body).img.px)

\* C4: requests are served one at a time and in order.  The Result frames
\* written are as many as the length prefixes read, or one fewer; the
\* prefix of request N+1 is read only when the frames of all N requests
\* before it are written; and the i-th frame written is the result of the
\* i-th adapter call, made on the image of the i-th frame read.
C4_OneAtATime == OneAtATime(Written)

\* Two different requests were served, each with its own result, and the
\* loop waits for a third.
C4_Witness ==
  /\ pc = "read_size"
  /\ Len(Written) = 2
  /\ Written[1] # Written[2]
  /\ requests[1].body # requests[2].body

\* C5: while the loop waits in read_size for the next request, every byte
\* of every Result frame written is on the pipe to the peer.
C5_Flushed ==
  (pc = "read_size" /\ ~stdin.closed /\ Len(stdin.data) < 4)
  => IsPrefix(FrameBytes(results), stdout.pipe)

\* C7: a frame whose body ends before the msg_size bytes announced is
\* fatal: main ends with an error, without an adapter call and without a
\* Result for it.
C7_TruncatedIsFatal ==
  \A i \in 1..Len(requests) :
    requests[i].size > Len(requests[i].body)
    => (Ended /\ exc # "none" /\ Len(calls) < i /\ Len(results) < i)

\* The body parses and its image keeps len(data) == height*width*channel*4.
WellFormed(body) ==
  LET m == ParseInput(body)
  IN /\ m.ok
     /\ Len(m.image.data)
          = m.image.height * m.image.width * m.image.channel * 4

\* C8: a frame whose body does not parse, or whose image breaks
\* len(data) == height*width*channel*4, is fatal: main ends with an error,
\* the adapter is not called, no Result is written, no frame is read after.
C8_MalformedIsFatal ==
  \A i \in 1..Len(requests) :
    ~WellFormed(requests[i].body)
    => (Ended /\ exc # "none" /\ Len(calls) < i /\ Len(results) < i
          /\ Len(requests) = i)

\* C9: the adapter is never reached with an image that holds NaN: a
\* constant image ends in an error at the normalisation.
C9_NoNaNToAdapter ==
  /\ pc = "eval" => ~HasNaN(img.px)
  /\ \A i \in 1..Len(calls) : ~HasNaN(calls[i].img.px)

ExpectedScoreImg(l, s) ==
  [shape |-> l.shape,
   v     |-> [k \in 1..Len(l.v) |-> IF l.v[k] > 0 THEN s[l.v[k]] ELSE 0]]

\* C10: for a 2-D label of values 0..max(label) and max(label) scores (no
\* instance and no score included), main derives the score image of the
\* label's shape: the score of the instance where there is one, 0 on the
\* background.
C10_ScoreImage ==
  ( /\ calls # <<>> /\ Len(requests) = Len(calls) /\ pc # "build"
    /\ HonoursContract(label, scores) )
  => (exc # "IndexError" /\ score_img = ExpectedScoreImg(label, scores))

\* C13: in every cycle the adapter is called with the settings of the
\* Input frame read in that cycle.
C13_SettingsPassedThrough ==
  \A i \in 1..Len(calls) :
    /\ i <= Len(requests)
    /\ calls[i].settings = Passed(ParseInput(requests[i].body).settings)

\* What main checks of an adapter answer (lines 102, 104 and 110): the
\* label is 2-D, max(label) == len(scores), and the score image derived
\* has the label's shape.
ContractChecks(c) ==
  /\ c.label.v # <<>>
  /\ Len(c.label.shape) = 2
  /\ ArrayMax(c.label.v) = Len(c.scores)
  /\ TakeScores(c.label, c.scores).shape = c.label.shape

\* A Result frame was begun for the i-th adapter call: its length prefix,
\* at least, was written.
FrameBegun(i) == Len(results) >= i \/ (i = Len(calls) /\ pc = "write_msg")

\* C15: a Result frame is written for an adapter call only if the answer
\* passed the checks; an answer that fails one ends the loop with an
\* error, in that cycle, and no Result frame is written for it.
C15_ContractChecked ==
  \A i \in 1..Len(calls) :
    /\ FrameBegun(i) => ContractChecks(calls[i])
    /\ ~ContractChecks(calls[i])
       => /\ i = Len(calls)
          /\ pc \in {"build", "raised", "exited"}
          /\ pc # "build" => exc # "none"
          /\ Len(Written) < i

\* After one request served, the adapter answered with a label whose
\* maximum is not the number of scores: the loop ended on the assertion,
\* with the one Result frame written before.
C15_Witness ==
  /\ pc = "exited"
  /\ exc = "AssertionError"
  /\ Len(calls) = 2
  /\ Len(calls[2].label.shape) = 2
  /\ ArrayMax(calls[2].label.v) # Len(calls[2].scores)
  /\ Len(Written) = 1

Int16Range == -32768..32767

\* The big-endian int16 elements of a matrix message's data.
Int16Values(data) ==
  [k \in 1..(Len(data) \div 2) |->
     AsInt16(data[2 * k - 1] * 256 + data[2 * k])]

\* The data-model invariants of a Result: label and score of one height
\* and one width, and two bytes of data for each element of each matrix.
ResultInvariant(r) ==
  /\ r.ok
  /\ r.label.height = r.score.height
  /\ r.label.width = r.score.width
  /\ Len(r.label.data) = r.label.height * r.label.width * 2
  /\ Len(r.score.data) = r.score.height * r.score.width * 2

\* The frames written, and the one being written, keep the invariants.
ResultInvariants(written) ==
  /\ \A i \in 1..Len(written) : ResultInvariant(ParseResult(written[i]))
  /\ pc = "write_msg" => ResultInvariant(ParseResult(msg))

\* C16: every Result frame written to the outbound stream, the one being
\* written included, keeps the invariants of the data model.
C16_ResultInvariants == ResultInvariants(Written)

\* Two Result frames are written, one of them of a 2x2 label with
\* background and two instances.
C16_Witness ==
  /\ Len(Written) = 2
  /\ \E i \in 1..2 :
       /\ ParseResult(Written[i]).label.height = 2
       /\ ParseResult(Written[i]).label.width = 2
       /\ Int16Values(ParseResult(Written[i]).label.data) = <<0, 1, 2, 1>>

\* The errors of a cycle after its length prefix is read: of the decode
\* (DecodeError, ValueError), the inference and the checks on its answer.
CycleErrors ==
  {"DecodeError", "ValueError", "InferenceError", "AssertionError",
   "IndexError"}

\* C17: in a cycle that fails after its length prefix is read, no byte
\* reaches the outbound stream, neither in the step that raises nor
\* afterwards, up to the end of the process.
C17_FailedCycleSilent ==
  [][exc' \in CycleErrors => stdout'.pipe = stdout.pipe]_vars

(***************************************************************************)
(* Encoding alone: write_result (lines 46-55) called with a label and a    *)
(* score image of the same shape, as main calls it, on a fresh stream.     *)
(***************************************************************************)
\* Labels up to and beyond the ends of the int16 range.
EncodeLabels ==
  {Label(1, 1, <<v>>) : v \in {0, 1, 2, 32767, 32768, 65537}}
    \cup {Label(1, 2, <<0, 1>>), Label(2, 1, <<1, 40000>>),
          [shape |-> <<1, 1, 2>>, v |-> <<0, 1>>]}

\* Scores (times 2000): 0, 0.5005, -0.0015, 32.767, 32.768, 40 and -40.
EncodeScores == {0, 1001, -3, 65534, 65536, 80000, -80000}

EncodeInputs ==
  {[label |-> l, score |-> [shape |-> l.shape, v |-> v]] :
     l \in {m \in EncodeLabels : Len(m.v) = 1},
     v \in {<<x>> : x \in EncodeScores}}
  \cup {[label |-> l, score |-> [shape |-> l.shape, v |-> v]] :
          l \in {m \in EncodeLabels : Len(m.v) = 2},
          v \in {<<0, 1001>>, <<-3, 80000>>}}

EncodeInit ==
  /\ pc = "write_size"
  /\ exc = "none"
  /\ plan = <<>>
  /\ lockstep = FALSE
  /\ sent = 0
  /\ stdin = [data |-> <<>>, closed |-> FALSE]
  /\ stdout = [text |-> <<>>, buf |-> <<>>, pipe |-> <<>>]
  /\ msg_size = 0
  /\ img = [shape |-> <<>>, px |-> <<>>]
  /\ settings = <<>>
  /\ \E i \in EncodeInputs : label = i.label /\ score_img = i.score
  /\ scores = <<>>
  /\ msg = <<>>
  /\ requests = <<>>
  /\ calls = <<>>
  /\ results = <<>>
  /\ polygon_args = NoPolygons

EncodeNext == WriteSize \/ WriteMsg

EncodeSpec == EncodeInit /\ [][EncodeNext]_vars

\* Some element of the score image has trunc(s*1000) outside int16.
ScoreOverflows ==
  \E k \in 1..Len(score_img.v) : Trunc1000(score_img.v[k]) \notin Int16Range

\* C11: a score image whose every trunc(s*1000) lies in the int16 range is
\* stored as those values, big-endian; one with a value outside the range
\* is rejected: write_result builds no message and writes nothing for it.
C11_ScoreQuantization ==
  /\ ScoreOverflows
     => (pc \in {"write_size", "raised"} /\ stdout.buf = <<>>)
  /\ (~ScoreOverflows /\ results # <<>>)
     => Int16Values(ParseResult(results[1]).score.data)
          = [k \in 1..Len(score_img.v) |-> Trunc1000(score_img.v[k])]

\* Some label value lies outside int16.
LabelOverflows == \E k \in 1..Len(label.v) : label.v[k] \notin Int16Range

\* C12: a label with a value outside the int16 range makes write_result
\* fail: nothing is written for it; and the label matrix of a frame
\* written holds the values of the label it was given.
C12_LabelRangeError ==
  /\ LabelOverflows
     => (pc \in {"write_size", "raised"} /\ stdout.buf = <<>>)
  /\ results # <<>>
     => Int16Values(ParseResult(results[1]).label.data) = label.v

(***************************************************************************)
(* write_polygon_result (lines 57-73) alone, called with a sequence of     *)
(* polygons and a sequence of scores on a fresh stream.  The module        *)
(* imports lacss_pb2 and nothing named LacssMsg.                           *)
(***************************************************************************)
MaxPolygons == 2

\* A float field of a message: wire type 5, four bytes, little-endian;
\* left out when it holds 0.0.
FieldFloat(num, x) ==
  IF x = Fin(0) THEN <<>>
  ELSE <<Tag(num, 5)>> \o [k \in 1..4 |-> F4(x)[5 - k]]

SerializePoint(p) == FieldFloat(1, p[1]) \o FieldFloat(2, p[2])

SerializePolygon(g) ==
  FieldFloat(1, g.score)
    \o Flatten([k \in 1..Len(g.points) |->
                  FieldMessage(2, SerializePoint(g.points[k]))])

SerializePolygonResult(gs) ==
  Flatten([k \in 1..Len(gs) |-> FieldMessage(1, SerializePolygon(gs[k]))])

PolygonChoices ==
  { <<>>,
    << <<Fin(0), Fin(1)>> >>,
    << <<Fin(0), Fin(1)>>, <<Fin(1), Fin(2)>> >>,
    << <<Fin(1), Fin(2)>>, <<Fin(0), Fin(1)>> >>,
    << <<Fin(0), Fin(1)>>, <<Fin(1), Fin(2)>>, <<Fin(2), Fin(0)>> >> }

\* Polygons with their scores, up to MaxPolygons of them.
PolygonArgs ==
  {[polygons |-> [k \in 1..Len(q) |-> q[k][1]],
    scores   |-> [k \in 1..Len(q) |-> q[k][2]]] :
     q \in SeqsUpTo(PolygonChoices \X {Fin(1), Fin(2)}, MaxPolygons)}

PolygonInit ==
  /\ pc = "polygon_build"
  /\ exc = "none"
  /\ plan = <<>>
  /\ lockstep = FALSE
  /\ sent = 0
  /\ stdin = [data |-> <<>>, closed |-> FALSE]
  /\ stdout = [text |-> <<>>, buf |-> <<>>, pipe |-> <<>>]
  /\ msg_size = 0
  /\ img = [shape |-> <<>>, px |-> <<>>]
  /\ settings = <<>>
  /\ label = NoArray
  /\ scores = <<>>
  /\ score_img = NoArray
  /\ msg = <<>>
  /\ requests = <<>>
  /\ calls = <<>>
  /\ results = <<>>
  /\ polygon_args \in PolygonArgs

\* zip(polygons, scores): the pairs the loop of line 59 visits.
Zipped(a) == 1..Min(Len(a.polygons), Len(a.scores))

\* Lines 58-68: the loop over the pairs.  The first polygon of more than
\* one point reaches LacssMsg.Polygon() (line 61), a name the module does
\* not define; without such a polygon the message stays empty.
PolygonBuild ==
  /\ pc = "polygon_build"
  /\ IF \E k \in Zipped(polygon_args) : Len(polygon_args.polygons[k]) > 1
       THEN Raise("NameError") /\ UNCHANGED msg
       ELSE /\ msg' = SerializePolygonResult(<<>>)
            /\ pc' = "polygon_write_size"
            /\ UNCHANGED exc
  /\ UNCHANGED polygon_args
  /\ UNCHANGED <<peerVars, stdin, stdout, msg_size, img, settings, label,
                 scores, score_img, logVars>>

\* Lines 70-72: the size of the message is written.
PolygonWriteSize ==
  /\ pc = "polygon_write_size"
  /\ stdout' = BufferedWrite(stdout, struct_pack(Len(msg)))
  /\ pc' = "polygon_write_msg"
  /\ UNCHANGED polygon_args
  /\ UNCHANGED <<exc, peerVars, stdin, localVars, logVars>>

\* Line 73: the message is written; the function returns.
PolygonWriteMsg ==
  /\ pc = "polygon_write_msg"
  /\ stdout' = BufferedWrite(stdout, msg)
  /\ results' = Append(results, msg)
  /\ pc' = "polygon_done"
  /\ UNCHANGED polygon_args
  /\ UNCHANGED <<exc, peerVars, stdin, localVars, requests, calls>>

PolygonNext == PolygonBuild \/ PolygonWriteSize \/ PolygonWriteMsg

PolygonSpec == PolygonInit /\ [][PolygonNext]_vars

\* The polygons of at least two points, each with the score at its index.
RECURSIVE KeptFrom(_, _)
KeptFrom(a, k) ==
  IF k > Len(a.polygons) THEN <<>>
  ELSE (IF Len(a.polygons[k]) > 1
          THEN <<[score |-> a.scores[k], points |-> a.polygons[k]]>>
          ELSE <<>>) \o KeptFrom(a, k + 1)

\* C14: called with as many scores as polygons, write_polygon_result ends
\* without an error, having written one frame: the PolygonResult of the
\* polygons of at least two points, in their order, each with its own
\* score and its points in their order.
C14_PolygonResult ==
  (pc \in {"raised", "polygon_done"}
     /\ Len(polygon_args.polygons) = Len(polygon_args.scores))
  => (exc = "none"
        /\ Written = <<SerializePolygonResult(KeptFrom(polygon_args, 1))>>)

(***************************************************************************)
(* Framing alone: the two writes of write_result (lines 52-55) put frames  *)
(* of arbitrary bodies on a stream, and the two reads of read_input        *)
(* (lines 21 and 25, with the unpack of line 22) take them off it again.   *)
(***************************************************************************)
\* Bodies: empty, short, one that looks like a length prefix, and one whose
\* length needs two bytes of the prefix and exceeds the BufferedWriter.
Bodies ==
  {<<>>, <<0>>, <<255, 10>>, <<0, 0, 0, 1, 7>>, [i \in 1..300 |-> i % 256]}

FramingInit ==
  /\ pc = "read_size"
  /\ exc = "none"
  /\ plan \in SeqsUpTo(Bodies, MaxFrames)
  /\ lockstep = FALSE
  /\ sent = 0
  /\ stdin = [data |-> <<>>, closed |-> FALSE]
  /\ stdout = [text |-> <<>>, buf |-> <<>>, pipe |-> <<>>]
  /\ msg_size = 0
  /\ img = [shape |-> <<>>, px |-> <<>>]
  /\ settings = <<>>
  /\ label = NoArray
  /\ scores = <<>>
  /\ score_img = NoArray
  /\ msg = <<>>
  /\ requests = <<>>
  /\ calls = <<>>
  /\ results = <<>>
  /\ polygon_args = NoPolygons

\* write_result, lines 52-55, for the next body.
FrameWrite ==
  /\ plan # <<>>
  /\ stdout' = BufferedWrite(BufferedWrite(stdout,
                                           struct_pack(Len(Head(plan)))),
                             Head(plan))
  /\ results' = Append(results, Head(plan))
  /\ plan' = Tail(plan)
  /\ sent' = sent + 1
  /\ UNCHANGED polygon_args
  /\ UNCHANGED <<pc, exc, lockstep, stdin, localVars, requests, calls>>

\* The writer is done: its stream is flushed and closed.
FrameClose ==
  /\ plan = <<>>
  /\ ~stdin.closed
  /\ stdout' = [text |-> <<>>, buf |-> <<>>, pipe |-> <<>>]
  /\ stdin' = [data |-> stdin.data \o FlushStdout(stdout).pipe,
               closed |-> TRUE]
  /\ UNCHANGED polygon_args
  /\ UNCHANGED <<pc, exc, peerVars, localVars, logVars>>

\* The bytes on the pipe reach the reader.
FrameCarry ==
  /\ stdout.pipe # <<>>
  /\ ~stdin.closed
  /\ stdin' = [stdin EXCEPT !.data = @ \o stdout.pipe]
  /\ stdout' = [stdout EXCEPT !.pipe = <<>>]
  /\ UNCHANGED polygon_args
  /\ UNCHANGED <<pc, exc, peerVars, localVars, logVars>>

\* read_input, line 25: st.read(msg_size), the body of the frame.
FrameReadBody ==
  /\ pc = "read_msg"
  /\ ReadReady(msg_size)
  /\ msg_size >= -1
  /\ stdin' = [stdin EXCEPT !.data = Drop(@, Len(ReadBytes(msg_size)))]
  /\ requests' = Append(requests, [size |-> msg_size,
                                   body |-> ReadBytes(msg_size)])
  /\ pc' = "read_size"
  /\ UNCHANGED polygon_args
  /\ UNCHANGED <<exc, peerVars, stdout, localVars, calls, results>>

FramingNext ==
  \/ FrameWrite
  \/ FrameClose
  \/ FrameCarry
  \/ ReadSize
  \/ FrameReadBody

FramingSpec == FramingInit /\ [][FramingNext]_vars

\* C6: the frames written back to back are read back as the same bodies,
\* in order, each read taking exactly the 4 + n bytes of its frame: the
\* bytes read and the bytes still under way are together the bytes written.
C6_FramingRoundTrip ==
  /\ IsPrefix([i \in 1..Len(requests) |-> requests[i].body], results)
  /\ \A i \in 1..Len(requests) : requests[i].size = Len(requests[i].body)
  /\ FrameBytes([i \in 1..Len(requests) |-> requests[i].body])
       \o (IF pc = "read_msg" THEN struct_pack(msg_size) ELSE <<>>)
       \o stdin.data \o stdout.pipe \o stdout.buf
     = FrameBytes(results)
  /\ (stdin.closed /\ Ended) => Len(requests) = Len(results)

\* Two frames were read back, the first with a two-byte length, the second
\* a body that itself looks like a length prefix.
C6_Witness ==
  /\ Len(requests) = 2
  /\ Len(requests[1].body) = 300
  /\ requests[2].body = <<0, 0, 0, 1, 7>>
  /\ pc = "raised"

====
